---- MODULE Spec2Model ----
(***************************************************************************)
(* Model of the rent-share calculator of src/src/App.tsx: the three-step   *)
(* wizard (Settings, Participants, Result), the form it edits, the zod     *)
(* validation of a submit, and the allocation computed by onValid.         *)
(*                                                                         *)
(* Numbers computed by onValid are exact rationals <<n, d>> (d > 0, lowest *)
(* terms); a division by zero yields a non-finite value <<s, 0>> as the    *)
(* JavaScript division does (s = 0 is NaN, s = 1 / -1 is +/-Infinity).     *)
(***************************************************************************)
EXTENDS Integers, Sequences, FiniteSets, TLC

VARIABLES
    amount,         \* form field "amount"
    maximumLimit,   \* form field "maximumLimit"
    minimumLimit,   \* form field "minimumLimit"
    participants,   \* form field array "participants"
    activeStep,     \* useState(0)
    completed,      \* useState({}): completed[0] and completed[1] are set together
    results,        \* useState<RelevantInfo[]>([])
    totalGross,     \* useState(0)
    deltaBalance,   \* onValid's local deltaBalance, as left by its last run
    limitedDues,    \* onValid's local limitedDues, as left by its last run
    resultNames,    \* names of data.participants in onValid's last run
    lastHandler     \* the handler the last event ran

vars == <<amount, maximumLimit, minimumLimit, participants, activeStep,
          completed, results, totalGross, deltaBalance, limitedDues,
          resultNames, lastHandler>>

formVars == <<amount, maximumLimit, minimumLimit, participants>>
calcVars == <<results, totalGross, deltaBalance, limitedDues, resultNames>>

----------------------------------------------------------------------------
(* Bounds of the model *)

\* most participants the wizard's form holds
MaxParticipants == 2
\* most participants of a directly submitted form
MaxCalcParticipants == 3

----------------------------------------------------------------------------
(* Exact arithmetic *)

Abs(n) == IF n < 0 THEN -n ELSE n
Sign(n) == IF n < 0 THEN -1 ELSE IF n = 0 THEN 0 ELSE 1

RECURSIVE GCD(_, _)
GCD(a, b) == IF b = 0 THEN a ELSE GCD(b, a % b)

\* n / d as a JavaScript number: lowest terms, or non-finite when d = 0
Rat(n, d) ==
    IF d = 0 THEN <<Sign(n), 0>>
    ELSE LET g == GCD(Abs(n), Abs(d))
             s == Sign(d)
         IN <<(s * n) \div g, (s * d) \div g>>

RInt(n) == <<n, 1>>
Zero == RInt(0)
IsFinite(a) == a[2] # 0

\* x + y, x - y, x * y, x / y of JavaScript; NaN propagates
RAdd(a, b) ==
    IF IsFinite(a) /\ IsFinite(b) THEN Rat(a[1] * b[2] + b[1] * a[2], a[2] * b[2])
    ELSE IF IsFinite(a) THEN b
    ELSE IF IsFinite(b) THEN a
    ELSE IF a = b THEN a ELSE <<0, 0>>
RNeg(a) == <<-a[1], a[2]>>
RSub(a, b) == RAdd(a, RNeg(b))
RMul(a, b) ==
    IF IsFinite(a) /\ IsFinite(b) THEN Rat(a[1] * b[1], a[2] * b[2])
    ELSE <<Sign(a[1]) * Sign(b[1]), 0>>
RDiv(a, b) ==
    IF IsFinite(a) /\ IsFinite(b) THEN Rat(a[1] * b[2], a[2] * b[1])
    ELSE IF IsFinite(b) THEN <<a[1] * Sign(b[1]), 0>>
    ELSE IF IsFinite(a) THEN Zero
    ELSE <<0, 0>>
\* x > y, x < y of JavaScript: false when either side is NaN
RGt(a, b) ==
    IF IsFinite(a) /\ IsFinite(b) THEN a[1] * b[2] > b[1] * a[2]
    ELSE a # <<0, 0>> /\ b # <<0, 0>> /\ a # b
         /\ (a = <<1, 0>> \/ b = <<-1, 0>>)
RLt(a, b) == RGt(b, a)
RGe(a, b) == a = b \/ RGt(a, b)
RLe(a, b) == RGe(b, a)

RECURSIVE RSum(_, _)
\* s[1] + ... + s[k], left to right from 0
RSum(s, k) == IF k = 0 THEN Zero ELSE RAdd(RSum(s, k - 1), s[k])

----------------------------------------------------------------------------
(* Form values and their validation (zod, lines 41-73) *)

\* What a form field holds: a numeric entry, an emptied text field, text
\* that is no number, or nothing (a field never set).
Num(n) == [t |-> "number", v |-> n]
Empty == [t |-> "empty", v |-> 0]
Text == [t |-> "text", v |-> 0]
Undefined == [t |-> "undefined", v |-> 0]

\* the default name `Participant ${k}`
ParticipantName(k) == "Participant " \o ToString(k)

\* z.coerce.number(): Number(x), and NaN is no number
\* Number("") is 0; Number("abc") and Number(undefined) are NaN.
CoerceOk(f) == f.t \in {"number", "empty"}
Coerce(f) == IF f.t = "number" THEN f.v ELSE 0

\* ParticipantValid with .gt(0) on the salary written as .gte(0)
ParticipantValidGte(p) ==
    IF p.incomeType = "hourly"
    THEN /\ CoerceOk(p.hourlyRate) /\ Coerce(p.hourlyRate) > 0
         /\ CoerceOk(p.hoursPerWeek) /\ Coerce(p.hoursPerWeek) > 0
         /\ Coerce(p.hoursPerWeek) < 24 * 7
    ELSE CoerceOk(p.annualSalary) /\ Coerce(p.annualSalary) >= 0

\* the schema Participant (a discriminated union on incomeType)
ParticipantValid(p) ==
    IF p.incomeType = "hourly"
    THEN /\ CoerceOk(p.hourlyRate) /\ Coerce(p.hourlyRate) > 0
         /\ CoerceOk(p.hoursPerWeek) /\ Coerce(p.hoursPerWeek) > 0
         /\ Coerce(p.hoursPerWeek) < 24 * 7
    ELSE CoerceOk(p.annualSalary) /\ Coerce(p.annualSalary) > 0

\* the errors object of a submit, by field
AmountError == ~(CoerceOk(amount) /\ Coerce(amount) > 0)
MaximumLimitError == ~CoerceOk(maximumLimit)
MinimumLimitError == ~CoerceOk(minimumLimit)
ParticipantsError == \E i \in 1..Len(participants) : ~ParticipantValid(participants[i])

\* zodResolver(BillPay) finds no error
BillPayValid ==
    ~(AmountError \/ MaximumLimitError \/ MinimumLimitError \/ ParticipantsError)

\* the parsed output of a participant: the union member's own keys, coerced
ParsedParticipant(p) ==
    IF p.incomeType = "hourly"
    THEN [name |-> p.name, limited |-> p.limited, incomeType |-> "hourly",
          hourlyRate |-> Coerce(p.hourlyRate),
          hoursPerWeek |-> Coerce(p.hoursPerWeek), annualSalary |-> 0]
    ELSE [name |-> p.name, limited |-> p.limited, incomeType |-> "salary",
          hourlyRate |-> 0, hoursPerWeek |-> 0,
          annualSalary |-> Coerce(p.annualSalary)]

\* the data handed to onValid
ParsedData ==
    [amount |-> Coerce(amount),
     maximumLimit |-> Coerce(maximumLimit),
     minimumLimit |-> Coerce(minimumLimit),
     participants |-> [i \in 1..Len(participants) |-> ParsedParticipant(participants[i])]]

----------------------------------------------------------------------------
(* The allocation of onValid (lines 120-200) *)

\* lines 122-128
MonthlyGross(p) ==
    IF p.incomeType = "hourly"
    THEN RInt(p.hourlyRate * p.hoursPerWeek * 4)
    ELSE Rat(p.annualSalary, 12)

ParticipantMonthlyGross(data) ==
    [i \in 1..Len(data.participants) |-> MonthlyGross(data.participants[i])]

\* NonLimitedParticipantCount without its filter
NonLimitedParticipantCountUnfiltered(data) == Len(data.participants)

\* lines 131-133
NonLimitedParticipantCount(data) ==
    Cardinality({i \in 1..Len(data.participants) : ~data.participants[i].limited})

\* lines 136-139
TotalGross(data) ==
    RSum(ParticipantMonthlyGross(data), Len(data.participants))

\* lines 142-144
IncomePercentages(data) ==
    LET gross == ParticipantMonthlyGross(data)
        total == TotalGross(data)
    IN [i \in 1..Len(data.participants) |-> RMul(RDiv(gross[i], total), RInt(100))]

\* lines 147-150
NonLimitedDues(data) ==
    LET pct == IncomePercentages(data)
    IN [i \in 1..Len(data.participants) |->
            RMul(RInt(data.amount), RDiv(pct[i], RInt(100)))]

\* ApplyLimit without the test of participant.limited
ApplyLimitEveryone(due, limited, maxLimit, minLimit) ==
    LET max == RInt(maxLimit)
        min == RInt(minLimit)
    IN IF maxLimit # 0 /\ RGt(due, max)
       THEN [due |-> max, delta |-> RSub(due, max)]
       ELSE IF minLimit # 0 /\ RLt(due, min)
       THEN [due |-> min, delta |-> RSub(due, min)]
       ELSE [due |-> due, delta |-> Zero]

\* ApplyLimit with the minimum checked before the maximum
ApplyLimitMinimumFirst(due, limited, maxLimit, minLimit) ==
    IF limited
    THEN LET max == RInt(maxLimit)
             min == RInt(minLimit)
         IN IF minLimit # 0 /\ RLt(due, min)
            THEN [due |-> min, delta |-> RSub(due, min)]
            ELSE IF maxLimit # 0 /\ RGt(due, max)
            THEN [due |-> max, delta |-> RSub(due, max)]
            ELSE [due |-> due, delta |-> Zero]
    ELSE [due |-> due, delta |-> Zero]

\* lines 160-174: one participant's clamp, and what it adds to deltaBalance
ApplyLimit(due, limited, maxLimit, minLimit) ==
    IF limited
    THEN LET max == RInt(maxLimit)
             min == RInt(minLimit)
         IN IF maxLimit # 0 /\ RGt(due, max)
            THEN [due |-> max, delta |-> RSub(due, max)]
            ELSE IF minLimit # 0 /\ RLt(due, min)
            THEN [due |-> min, delta |-> RSub(due, min)]
            ELSE [due |-> due, delta |-> Zero]
    ELSE [due |-> due, delta |-> Zero]

RECURSIVE ApplyLimits(_, _, _)
\* lines 155-175 over the first k participants: the clamped dues and the
\* deltaBalance accumulated so far
ApplyLimits(data, dues, k) ==
    IF k = 0 THEN [dues |-> <<>>, deltaBalance |-> Zero]
    ELSE LET prev == ApplyLimits(data, dues, k - 1)
             one == ApplyLimit(dues[k], data.participants[k].limited,
                               data.maximumLimit, data.minimumLimit)
         IN [dues |-> Append(prev.dues, one.due),
             deltaBalance |-> RAdd(prev.deltaBalance, one.delta)]

\* AdjustDue taking deltaBalance off instead of adding it
AdjustDueSubtracting(due, limited, delta, count) ==
    IF ~limited THEN RSub(due, RDiv(delta, RInt(count))) ELSE due

\* AdjustDue with its test of participant.limited inverted
AdjustDueInverted(due, limited, delta, count) ==
    IF limited THEN RAdd(due, RDiv(delta, RInt(count))) ELSE due

\* lines 177-184: one participant's adjusted due
AdjustDue(due, limited, delta, count) ==
    IF ~limited THEN RAdd(due, RDiv(delta, RInt(count))) ELSE due

\* everything onValid computes
Allocation(data) ==
    LET n == Len(data.participants)
        gross == ParticipantMonthlyGross(data)
        pct == IncomePercentages(data)
        dues == NonLimitedDues(data)
        lim == ApplyLimits(data, dues, n)
        count == NonLimitedParticipantCount(data)
    IN [totalGross |-> TotalGross(data),
        deltaBalance |-> lim.deltaBalance,
        limitedDues |-> lim.dues,
        results |-> [i \in 1..n |->
            [grossMonthlyIncome |-> gross[i],
             percentageOfTotal |-> pct[i],
             amountDue |-> dues[i],
             adjustedDue |-> AdjustDue(lim.dues[i], data.participants[i].limited,
                                       lim.deltaBalance, count)]]]

----------------------------------------------------------------------------
(* The form and the wizard *)

SalaryParticipant(name, limited, salary) ==
    [name |-> name, limited |-> limited, incomeType |-> "salary",
     hourlyRate |-> Undefined, hoursPerWeek |-> Undefined, annualSalary |-> salary]

HourlyParticipant(name, limited, rate, hours) ==
    [name |-> name, limited |-> limited, incomeType |-> "hourly",
     hourlyRate |-> rate, hoursPerWeek |-> hours, annualSalary |-> Undefined]

\* defaultValues.participants (lines 101-115)
DefaultParticipants ==
    << SalaryParticipant(ParticipantName(1), FALSE, Num(30000)),
       HourlyParticipant(ParticipantName(2), FALSE, Num(15), Num(40)) >>

\* what the user types into the wizard's fields
WizardAmounts == {Num(1000), Text}
WizardMaximumLimits == {Num(600), Text}
WizardMinimumLimits == {Num(200), Text}
WizardSalaries == {Num(30000)}

\* the forms submitted directly
CalcAmounts == {Num(0), Num(1000)}
CalcMaximumLimits == {Num(0), Num(400), Text}
CalcMinimumLimits == {Empty, Num(300), Num(600)}
CalcIncomes ==
    { SalaryParticipant("", FALSE, Num(30000)),
      SalaryParticipant("", FALSE, Num(60000)),
      HourlyParticipant("", FALSE, Num(15), Num(40)),
      HourlyParticipant("", FALSE, Num(15), Num(168)) }
CalcParticipants ==
    UNION { [1..n -> CalcIncomes \X BOOLEAN] : n \in 0..MaxCalcParticipants }
NamedParticipants(f) ==
    [i \in DOMAIN f |->
        [f[i][1] EXCEPT !.name = ParticipantName(i), !.limited = f[i][2]]]

\* useState and useForm defaults (lines 87-118)
Init ==
    /\ amount = Num(0)
    /\ maximumLimit = Num(600)
    /\ minimumLimit = Num(200)
    /\ participants = DefaultParticipants
    /\ activeStep = 0
    /\ completed = FALSE
    /\ results = <<>>
    /\ totalGross = Zero
    /\ deltaBalance = Zero
    /\ limitedDues = <<>>
    /\ resultNames = <<>>
    /\ lastHandler = "none"

\* a form filled in and shown on the Participants step, nothing calculated yet
InitCalc ==
    /\ amount \in CalcAmounts
    /\ maximumLimit \in CalcMaximumLimits
    /\ minimumLimit \in CalcMinimumLimits
    /\ participants \in {NamedParticipants(f) : f \in CalcParticipants}
    /\ activeStep = 1
    /\ completed = FALSE
    /\ results = <<>>
    /\ totalGross = Zero
    /\ deltaBalance = Zero
    /\ limitedDues = <<>>
    /\ resultNames = <<>>
    /\ lastHandler = "none"

\* onValid (lines 120-200)
OnValid(data) ==
    LET a == Allocation(data)
    IN /\ totalGross' = a.totalGross
       /\ results' = a.results
       /\ deltaBalance' = a.deltaBalance
       /\ limitedDues' = a.limitedDues
       /\ resultNames' = [i \in 1..Len(data.participants) |-> data.participants[i].name]
       /\ completed' = TRUE
       /\ activeStep' = 2
       /\ lastHandler' = "onValid"
       /\ UNCHANGED formVars

\* onInvalid (lines 202-205)
OnInvalid ==
    /\ activeStep' = IF AmountError \/ MaximumLimitError \/ MinimumLimitError
                     THEN 0 ELSE activeStep
    /\ lastHandler' = "onInvalid"
    /\ UNCHANGED <<formVars, calcVars, completed>>

\* handleSubmit(onValid, onInvalid) (line 210): the Calculate button of the
\* Participants step, or Enter in a text field of a shown step
HandleSubmit ==
    /\ activeStep \in {0, 1}
    /\ \/ BillPayValid /\ OnValid(ParsedData)
       \/ ~BillPayValid /\ OnInvalid

\* a StepButton's onClick (lines 214-217)
StepButton(index) ==
    /\ ~(index = 2 /\ ~completed)
    /\ activeStep' = index
    /\ lastHandler' = "none"
    /\ UNCHANGED <<formVars, calcVars, completed>>

\* the Next button of the Settings step (lines 294-300)
NextButton ==
    /\ activeStep = 0
    /\ activeStep' = 1
    /\ lastHandler' = "none"
    /\ UNCHANGED <<formVars, calcVars, completed>>

\* typing into a field of the Settings step (lines 226-293)
SetAmount(v) ==
    /\ activeStep = 0
    /\ amount' = v
    /\ lastHandler' = "none"
    /\ UNCHANGED <<maximumLimit, minimumLimit, participants, activeStep,
                   completed, calcVars>>

SetMaximumLimit(v) ==
    /\ activeStep = 0
    /\ maximumLimit' = v
    /\ lastHandler' = "none"
    /\ UNCHANGED <<amount, minimumLimit, participants, activeStep,
                   completed, calcVars>>

SetMinimumLimit(v) ==
    /\ activeStep = 0
    /\ minimumLimit' = v
    /\ lastHandler' = "none"
    /\ UNCHANGED <<amount, maximumLimit, participants, activeStep,
                   completed, calcVars>>

\* a participant's fields on the Participants step (lines 321-398)
SetLimited(index, b) ==
    /\ activeStep = 1
    /\ index \in 1..Len(participants)
    /\ participants' = [participants EXCEPT ![index].limited = b]
    /\ lastHandler' = "none"
    /\ UNCHANGED <<amount, maximumLimit, minimumLimit, activeStep,
                   completed, calcVars>>

SetAnnualSalary(index, v) ==
    /\ activeStep = 1
    /\ index \in 1..Len(participants)
    /\ participants[index].incomeType = "salary"
    /\ participants' = [participants EXCEPT ![index].annualSalary = v]
    /\ lastHandler' = "none"
    /\ UNCHANGED <<amount, maximumLimit, minimumLimit, activeStep,
                   completed, calcVars>>

\* Delete Participant (lines 400-413)
DeleteParticipant(index) ==
    /\ activeStep = 1
    /\ index \in 1..Len(participants)
    /\ participants' = [i \in 1..(Len(participants) - 1) |->
                            IF i < index THEN participants[i] ELSE participants[i + 1]]
    /\ lastHandler' = "none"
    /\ UNCHANGED <<amount, maximumLimit, minimumLimit, activeStep,
                   completed, calcVars>>

\* Add Participant (lines 418-433)
AddParticipant ==
    /\ activeStep = 1
    /\ Len(participants) < MaxParticipants
    /\ participants' = Append(participants,
            SalaryParticipant(ParticipantName(Len(participants) + 1), FALSE, Num(0)))
    /\ lastHandler' = "none"
    /\ UNCHANGED <<amount, maximumLimit, minimumLimit, activeStep,
                   completed, calcVars>>

Next ==
    \/ HandleSubmit
    \/ \E index \in 0..2 : StepButton(index)
    \/ NextButton
    \/ \E v \in WizardAmounts : SetAmount(v)
    \/ \E v \in WizardMaximumLimits : SetMaximumLimit(v)
    \/ \E v \in WizardMinimumLimits : SetMinimumLimit(v)
    \/ \E index \in 1..MaxParticipants, b \in BOOLEAN : SetLimited(index, b)
    \/ \E index \in 1..MaxParticipants, v \in WizardSalaries : SetAnnualSalary(index, v)
    \/ \E index \in 1..MaxParticipants : DeleteParticipant(index)
    \/ AddParticipant

Spec == Init /\ [][Next]_vars

NextCalc == HandleSubmit

SpecCalc == InitCalc /\ [][NextCalc]_vars

----------------------------------------------------------------------------
(* What the claims are stated in *)

\* onValid has just run on the form as it stands
Calculated == lastHandler = "onValid"

N == Len(participants)
Limited(i) == participants[i].limited
AmountDue(i) == results[i].amountDue
AdjustedDue(i) == results[i].adjustedDue
Bill == RInt(amount.v)
MaxLimit == RInt(IF maximumLimit.t = "number" THEN maximumLimit.v ELSE 0)
MinLimit == RInt(IF minimumLimit.t = "number" THEN minimumLimit.v ELSE 0)
MaxEnabled == MaxLimit # Zero
MinEnabled == MinLimit # Zero

SumAdjustedDue == RSum([i \in 1..N |-> AdjustedDue(i)], N)
\* the sum over the participants other than i of (unadjusted due - clamped due)
ClampedAwayExcept(i) ==
    RSum([j \in 1..N |-> IF j = i THEN Zero ELSE RSub(AmountDue(j), limitedDues[j])], N)
UnlimitedCount == Cardinality({i \in 1..N : ~Limited(i)})

\* C1: with at least one unlimited participant, the adjusted dues of a
\* calculation add up to the bill amount exactly, whatever the limits are
\* and whoever is limited.
C1_AdjustedSumIsAmount ==
    (Calculated /\ \E i \in 1..N : ~Limited(i)) => SumAdjustedDue = Bill

\* C1's case: limited participants were clamped and the difference was
\* redistributed over unlimited ones
C1_Witness ==
    /\ Calculated
    /\ \E i \in 1..N : ~Limited(i)
    /\ \E i \in 1..N : Limited(i) /\ limitedDues[i] # AmountDue(i)
    /\ deltaBalance # Zero

\* C2: when every participant is limited and clamping leaves a nonzero
\* deltaBalance, the calculation does not store a results table and show
\* the Result step with dues whose sum differs from the bill amount.
C2_DegenerateInputRejected ==
    (/\ Calculated
     /\ N > 0
     /\ \A i \in 1..N : Limited(i)
     /\ deltaBalance # Zero)
    => ~(activeStep = 2 /\ results # <<>> /\ SumAdjustedDue # Bill)

\* C3: with no limited participant every adjusted due is the unadjusted
\* due, whatever the limits are.
C3_NoLimitedUnchanged ==
    (Calculated /\ \A i \in 1..N : ~Limited(i))
    => \A i \in 1..N : AdjustedDue(i) = AmountDue(i)

\* C3's case: nobody is limited although a due lies outside the limits
C3_Witness ==
    /\ Calculated
    /\ N >= 2
    /\ \A i \in 1..N : ~Limited(i)
    /\ \E i \in 1..N : MaxEnabled /\ RGt(AmountDue(i), MaxLimit)
    /\ \E i \in 1..N : MinEnabled /\ RLt(AmountDue(i), MinLimit)

InsideBand(i) ==
    /\ Limited(i) /\ MinEnabled /\ MaxEnabled
    /\ RGt(AmountDue(i), MinLimit) /\ RLt(AmountDue(i), MaxLimit)

\* C4: a limited participant whose unadjusted due lies strictly between the
\* two enabled limits keeps it: the clamping pass returns it unchanged, adds
\* nothing for it to deltaBalance, and its adjusted due is its unadjusted due.
C4_InsideBandUnchanged ==
    Calculated =>
        \A i \in 1..N : InsideBand(i) =>
            /\ limitedDues[i] = AmountDue(i)
            /\ deltaBalance = ClampedAwayExcept(i)
            /\ AdjustedDue(i) = AmountDue(i)

\* C4's case: one limited participant inside the band while another one is
\* clamped
C4_Witness ==
    /\ Calculated
    /\ \E i \in 1..N : InsideBand(i)
    /\ deltaBalance # Zero

\* a field holding a number greater than n
FieldGt(f, n) == f.t = "number" /\ f.v > n
FieldLt(f, n) == f.t = "number" /\ f.v < n
\* a field z.coerce.number() turns into NaN
NotANumber(f) == f.t \in {"text", "undefined"}

\* the form passes validation, as the schema's messages state it
FormPasses ==
    /\ FieldGt(amount, 0)
    /\ ~NotANumber(maximumLimit) /\ ~NotANumber(minimumLimit)
    /\ \A i \in 1..N :
        /\ participants[i].incomeType = "hourly" =>
            /\ FieldGt(participants[i].hourlyRate, 0)
            /\ FieldGt(participants[i].hoursPerWeek, 0)
            /\ FieldLt(participants[i].hoursPerWeek, 168)
        /\ participants[i].incomeType = "salary" =>
            FieldGt(participants[i].annualSalary, 0)

SettingsInError ==
    ~FieldGt(amount, 0) \/ NotANumber(maximumLimit) \/ NotANumber(minimumLimit)

\* C5: the allocation runs, and results, totalGross and the Result step are
\* set by a submit, only when the form passes validation; a failed submit
\* leaves results and totalGross alone and puts the wizard on step 0 exactly
\* when the amount or a limit is in error (otherwise the step stays).
C5_ValidationGatesOnValid ==
    [][ /\ (lastHandler' = "onValid" \/ results' # results \/ totalGross' # totalGross)
            => (FormPasses /\ activeStep' = 2)
        /\ lastHandler' = "onInvalid"
            => /\ ~FormPasses
               /\ results' = results /\ totalGross' = totalGross
               /\ activeStep' = IF SettingsInError THEN 0 ELSE activeStep
      ]_vars

\* C5's case: a submit failed on a setting after an earlier calculation, and
\* the wizard went back to step 0 with the stored results kept
C5_Witness ==
    /\ lastHandler = "onInvalid"
    /\ results # <<>>
    /\ activeStep = 0
    /\ SettingsInError

\* the clamped due of participant i as the clamping pass is described
ClampedDue(i) ==
    IF Limited(i) /\ MaxEnabled /\ RGt(AmountDue(i), MaxLimit) THEN MaxLimit
    ELSE IF Limited(i) /\ MinEnabled /\ RLt(AmountDue(i), MinLimit) THEN MinLimit
    ELSE AmountDue(i)

\* C6: an unlimited participant's adjusted due is its unadjusted due plus
\* deltaBalance / (number of unlimited participants), deltaBalance being the
\* sum of (unadjusted due - clamped due); a limited participant's adjusted
\* due is its clamped due. Amount 1000, maximum 400, two equal incomes, the
\* first limited and the second not: 400 and 600.
C6_Redistribution ==
    Calculated =>
        /\ deltaBalance = RSum([j \in 1..N |-> RSub(AmountDue(j), ClampedDue(j))], N)
        /\ \A i \in 1..N :
            AdjustedDue(i) =
                IF Limited(i) THEN ClampedDue(i)
                ELSE RAdd(AmountDue(i), RDiv(deltaBalance, RInt(UnlimitedCount)))
        /\ (/\ Bill = RInt(1000) /\ MaxLimit = RInt(400) /\ ~MinEnabled
            /\ N = 2 /\ Limited(1) /\ ~Limited(2)
            /\ results[1].grossMonthlyIncome = results[2].grossMonthlyIncome)
           => (AdjustedDue(1) = RInt(400) /\ AdjustedDue(2) = RInt(600))

\* C6's case: the example of the claim
C6_Witness ==
    /\ Calculated
    /\ Bill = RInt(1000) /\ MaxLimit = RInt(400) /\ ~MinEnabled
    /\ N = 2 /\ Limited(1) /\ ~Limited(2)
    /\ results[1].grossMonthlyIncome = results[2].grossMonthlyIncome
    /\ deltaBalance = RInt(100)

C8_LimitedInsideBand ==
    Calculated =>
        \A i \in 1..N : Limited(i) =>
            /\ MaxEnabled => RLe(AdjustedDue(i), MaxLimit)
            /\ MinEnabled => RGe(AdjustedDue(i), MinLimit)

\* C9: with at least one unlimited participant no adjusted due is negative.
C9_NoNegativeDue ==
    (Calculated /\ \E i \in 1..N : ~Limited(i))
    => \A i \in 1..N : RGe(AdjustedDue(i), Zero)

\* C10: whenever the Result step is shown, the results list has one entry
\* per participant of the form, and entry i was computed for the participant
\* now at index i.
C10_ResultsMatchForm ==
    activeStep = 2 =>
        /\ Len(results) = Len(participants)
        /\ \A i \in 1..Len(results) : resultNames[i] = participants[i].name

====
